---- MODULE Spec2Model ----
(***************************************************************************)
(* Model of the babblingbrook backend relay (src/backend/main.ts): the     *)
(* Deno.serve request handler that forwards a prompt to the Ollama         *)
(* /api/generate endpoint, reads the newline-delimited JSON stream chunk   *)
(* by chunk and answers with the accumulated text.                         *)
(*                                                                         *)
(* Bytes and characters are modelled as short strings:                     *)
(*   "{" "}"  the braces of a JSON record line                             *)
(*   "a" "b"  payload characters of the record's response string          *)
(*   "SP"     a space (payload inside the braces, whitespace outside)      *)
(*   "D"      the done:true marker of a record                             *)
(*   "NL"     the line terminator \n                                       *)
(*   "x"      a character that makes a line invalid JSON                   *)
(*   "n"      the JSON literal null                                        *)
(*   "L" "T"  lead and continuation byte of one two-byte UTF-8 character,  *)
(*            decoded to "E"; "FFFD" is the replacement character          *)
(* A line  { payload* [D] }  stands for {"response":"payload","done":..}.  *)
(***************************************************************************)
EXTENDS Integers, Sequences, FiniteSets, TLC

\* ------------------------------------------------------------------ bounds
\* largest number of lines in an upstream body
MaxLines == 2

\* ------------------------------------------------------- program constants
corsOptions == [origin |-> "http://localhost:3000", optionsSuccessStatus |-> 200]

\* ---------------------------------------------------------- pure functions
RECURSIVE decode(_)
\* TextDecoder.decode(value) without {stream: true}: every call starts with
\* an empty decoder state, so a two-byte character cut by the chunk boundary
\* becomes U+FFFD on both sides.
decode(value) ==
  IF value = <<>> THEN <<>>
  ELSE IF Head(value) = "L"
       THEN IF Len(value) >= 2 /\ value[2] = "T"
            THEN <<"E">> \o decode(SubSeq(value, 3, Len(value)))
            ELSE <<"FFFD">> \o decode(Tail(value))
       ELSE IF Head(value) = "T"
            THEN <<"FFFD">> \o decode(Tail(value))
            ELSE <<Head(value)>> \o decode(Tail(value))

RECURSIVE split(_)
\* String.prototype.split("\n"): n separators give n+1 pieces, in order.
split(chunk) ==
  IF \A i \in 1..Len(chunk) : chunk[i] # "NL"
  THEN <<chunk>>
  ELSE LET i == CHOOSE k \in 1..Len(chunk) :
                  chunk[k] = "NL" /\ \A m \in 1..(k-1) : chunk[m] # "NL"
       IN  <<SubSeq(chunk, 1, i-1)>> \o split(SubSeq(chunk, i+1, Len(chunk)))

RECURSIVE trim(_)
\* String.prototype.trim(): strips whitespace at both ends only.
trim(line) ==
  IF line = <<>> THEN <<>>
  ELSE IF Head(line) = "SP" THEN trim(Tail(line))
  ELSE IF line[Len(line)] = "SP" THEN trim(SubSeq(line, 1, Len(line)-1))
  ELSE line

PayloadChars == {"a", "b", "SP", "E", "FFFD"}

\* JSON.parse(line): surrounding whitespace is insignificant; the text must
\* be one complete value.  kind "record" is an object, "null" the literal
\* null, "SyntaxError" a throw.
JSONparse(line) ==
  LET t == trim(line)
      n == Len(t)
  IN  IF t = <<"n">>
      THEN [kind |-> "null", response |-> <<>>, done |-> FALSE]
      ELSE IF n >= 2 /\ t[1] = "{" /\ t[n] = "}"
      THEN LET inner == SubSeq(t, 2, n-1)
               m     == Len(inner)
               dn    == m >= 1 /\ inner[m] = "D"
               body  == IF dn THEN SubSeq(inner, 1, m-1) ELSE inner
           IN  IF \A i \in 1..Len(body) : body[i] \in PayloadChars
               THEN [kind |-> "record", response |-> body, done |-> dn]
               ELSE [kind |-> "SyntaxError", response |-> <<>>, done |-> FALSE]
      ELSE [kind |-> "SyntaxError", response |-> <<>>, done |-> FALSE]

\* mutant: the fragment is trimmed before it is appended
processLine_trimmed(fullResponse, line) ==
  IF trim(line) = <<>> THEN fullResponse
  ELSE LET jsonResponse == JSONparse(line)
       IN  IF jsonResponse.kind = "record" /\ jsonResponse.response # <<>>
           THEN fullResponse \o trim(jsonResponse.response)
           ELSE fullResponse

\* Body of the for-loop over lines: blank lines are skipped; a parse error
\* (or the TypeError of reading .response of null) is caught and logged; a
\* truthy response is appended.
processLine(fullResponse, line) ==
  IF trim(line) = <<>> THEN fullResponse
  ELSE LET jsonResponse == JSONparse(line)
       IN  IF jsonResponse.kind = "record" /\ jsonResponse.response # <<>>
           THEN fullResponse \o jsonResponse.response
           ELSE fullResponse

RECURSIVE processLines_abortOnError(_, _)
\* mutant: the try/catch is around the whole loop, so the first line that
\* fails to parse ends the processing of the chunk
processLines_abortOnError(fullResponse, lines) ==
  IF lines = <<>> THEN fullResponse
  ELSE IF trim(Head(lines)) # <<>> /\ JSONparse(Head(lines)).kind # "record"
  THEN fullResponse
  ELSE processLines_abortOnError(processLine(fullResponse, Head(lines)), Tail(lines))

RECURSIVE processLines(_, _)
processLines(fullResponse, lines) ==
  IF lines = <<>> THEN fullResponse
  ELSE processLines(processLine(fullResponse, Head(lines)), Tail(lines))

\* One iteration of the read loop after a successful read.
processChunk(fullResponse, value) ==
  processLines(fullResponse, split(decode(value)))


\* ------------------------------------------------------------------ inputs
\* request methods the handler distinguishes
Methods == {"OPTIONS", "POST", "GET", "PUT"}

\* request bodies: text req.json() rejects, or an object with a prompt
\* (absent, empty, whitespace-only, or text)
Prompts ==
  {[defined |-> FALSE, text |-> <<>>]}
  \cup {[defined |-> TRUE, text |-> t] : t \in {<<>>, <<"SP">>, <<"H", "i">>}}
Bodies ==
  {[parseable |-> FALSE, prompt |-> [defined |-> FALSE, text |-> <<>>]]}
  \cup {[parseable |-> TRUE, prompt |-> p] : p \in Prompts}

\* lines an upstream body is made of
Lines ==
  { <<"{", "a", "}">>,          \* {"response":"a","done":false}
    <<"{", "b", "D", "}">>,     \* {"response":"b","done":true}
    <<"{", "D", "}">>,          \* {"response":"","done":true}
    <<"{", "SP", "a", "}">>,    \* {"response":" a","done":false}
    <<"{", "L", "T", "}">>,     \* a response of one two-byte character
    <<"x">>,                    \* not JSON
    <<"n">>,                    \* null
    <<"SP">>,                   \* whitespace-only line
    <<>> }                      \* empty line

RECURSIVE Terminated(_)
\* the byte streams of exactly n lines, each followed by the terminator
Terminated(n) ==
  IF n = 0 THEN {<<>>}
  ELSE {s \o l \o <<"NL">> : s \in Terminated(n-1), l \in Lines}

\* upstream bodies: up to MaxLines terminated lines, the last one possibly
\* left without its terminator
Streams ==
  UNION {Terminated(n) : n \in 0..MaxLines}
  \cup UNION {{s \o l : s \in Terminated(n), l \in Lines \ {<<>>}} : n \in 0..(MaxLines-1)}

\* bodies of upstream error replies
ErrorBodies == {<<>>, <<"o", "v", "l", "d">>}

\* what fetch() can resolve with: a status and a body (null when hasBody
\* is FALSE)
UpstreamResponses ==
  {[status |-> 200, hasBody |-> TRUE, body |-> s] : s \in Streams}
  \cup {[status |-> 200, hasBody |-> FALSE, body |-> <<>>]}
  \cup {[status |-> st, hasBody |-> TRUE, body |-> t] : st \in {404, 503}, t \in ErrorBodies}

\* what fetch() can resolve with while several requests are in flight: two
\* bodies with different text, a reply without a body and an error reply
ConcurrentResponses ==
  { [status |-> 200, hasBody |-> TRUE, body |-> <<"{", "a", "}", "NL">>],
    [status |-> 200, hasBody |-> TRUE, body |-> <<"{", "b", "D", "}", "NL">>],
    [status |-> 200, hasBody |-> FALSE, body |-> <<>>],
    [status |-> 503, hasBody |-> TRUE, body |-> <<"o", "v", "l", "d">>] }

\* the replies offered to the requests ids
Offered(ids) ==
  IF Cardinality(ids) = 1 THEN UpstreamResponses ELSE ConcurrentResponses

ok(response) == response.status \in 200..299

\* values a rejected await can throw: Error objects, and a non-Error reason
Errors  == {[isError |-> TRUE, message |-> <<m>>] : m \in {"network", "reset"}}
Thrown  == Errors \cup {[isError |-> FALSE, message |-> <<"reason">>]}

\* ------------------------------------------------------------------- state
VARIABLES
  pc,            \* per request: where the handler is
  req,           \* per request: the Request it was called with
  upstreamCalls, \* per request: the fetch() calls issued, in order
  upstream,      \* per request: what fetch() resolved with
  remaining,     \* per request: bytes of the upstream body not yet read
  fullResponse,  \* per request: the accumulator
  responses,     \* per request: the Responses returned, in order
  caught         \* per request: the value bound by the catch block

\* state of the prompt page (PromptComponent)
VARIABLES
  uiPrompt,      \* useState prompt: the text of the textarea
  uiResponse,    \* useState response: the text shown as the answer
  isLoading,     \* useState isLoading
  uiError,       \* useState error: null or a message
  submitPc,      \* where the running handleSubmit call is, "idle" if none
  res            \* the reply the running handleSubmit call holds

backendVars == <<pc, req, upstreamCalls, upstream, remaining, fullResponse, responses, caught>>
uiVars == <<uiPrompt, uiResponse, isLoading, uiError, submitPc, res>>
vars == <<pc, req, upstreamCalls, upstream, remaining, fullResponse, responses, caught,
          uiPrompt, uiResponse, isLoading, uiError, submitPc, res>>

NoRequest == [method |-> "none", body |-> [parseable |-> FALSE, prompt |-> [defined |-> FALSE, text |-> <<>>]]]
NoError == [isError |-> FALSE, message |-> <<>>]
NoUpstream == [status |-> 0, hasBody |-> FALSE, body |-> <<>>]

InitFor(ids) ==
  /\ pc = [r \in ids |-> "Idle"]
  /\ req = [r \in ids |-> NoRequest]
  /\ upstreamCalls = [r \in ids |-> <<>>]
  /\ upstream = [r \in ids |-> NoUpstream]
  /\ remaining = [r \in ids |-> <<>>]
  /\ fullResponse = [r \in ids |-> <<>>]
  /\ responses = [r \in ids |-> <<>>]
  /\ caught = [r \in ids |-> NoError]

\* useState<string | null>(null)
NoUiError == [isNull |-> TRUE, message |-> <<>>]
NoReply == [status |-> 0, key |-> "none", value |-> <<>>, headers |-> {}]

\* the page as first rendered
UIInit ==
  /\ uiPrompt = <<>>
  /\ uiResponse = <<>>
  /\ isLoading = FALSE
  /\ uiError = NoUiError
  /\ submitPc = "idle"
  /\ res = NoReply

Init == InitFor({1}) /\ UIInit

\* ---------------------------------------------------------------- responses
\* mutant: the shared headers lose the content type
headers_noContentType ==
  { <<"Access-Control-Allow-Origin", corsOptions.origin>> }

headers ==
  { <<"Access-Control-Allow-Origin", corsOptions.origin>>,
    <<"Content-Type", "application/json">> }

\* mutant: the preflight answers with corsOptions.optionsSuccessStatus
preflightResponse_legacyStatus ==
  [status |-> corsOptions.optionsSuccessStatus, key |-> "none", value |-> <<>>,
   headers |-> { <<"Access-Control-Allow-Origin", corsOptions.origin>>,
                 <<"Access-Control-Allow-Methods", "POST, OPTIONS">>,
                 <<"Access-Control-Allow-Headers", "Content-Type">> }]

preflightResponse ==
  [status |-> 204, key |-> "none", value |-> <<>>,
   headers |-> { <<"Access-Control-Allow-Origin", corsOptions.origin>>,
                 <<"Access-Control-Allow-Methods", "POST, OPTIONS">>,
                 <<"Access-Control-Allow-Headers", "Content-Type">> }]

methodNotAllowedResponse ==
  [status |-> 405, key |-> "error", value |-> <<"Method Not Allowed">>,
   headers |-> headers]

successResponse(text) ==
  [status |-> 200, key |-> "response", value |-> text, headers |-> headers]

\* mutant: the catch block ignores the Error's message
catchResponse_alwaysGeneric(error) ==
  [status |-> 500, key |-> "error",
   value |-> <<"An unknown error occurred">>,
   headers |-> headers]

\* the catch block: the Error's message, or the fallback for other values
catchResponse(error) ==
  [status |-> 500, key |-> "error",
   value |-> IF error.isError THEN error.message
             ELSE <<"An unknown error occurred">>,
   headers |-> headers]

Error(message) == [isError |-> TRUE, message |-> message]

\* return a Response from the handler
Return(r, response, to) ==
  /\ responses' = [responses EXCEPT ![r] = Append(@, response)]
  /\ pc' = [pc EXCEPT ![r] = to]

\* mutant: the catch block builds the Response but does not return it
Throw_noReturn(r, error) ==
  /\ caught' = [caught EXCEPT ![r] = error]
  /\ responses' = [responses EXCEPT ![r] = Append(@, catchResponse(error))]
  /\ pc' = pc

\* throw inside the try block: control goes to the catch block
Throw(r, error) ==
  /\ caught' = [caught EXCEPT ![r] = error]
  /\ Return(r, catchResponse(error), "Failed")


\* ------------------------------------------------------------------ actions
\* lines 61-71: a preflight request is answered before anything else
Preflight(r) ==
  /\ pc[r] = "Idle"
  /\ req' = [req EXCEPT ![r] = [NoRequest EXCEPT !.method = "OPTIONS"]]
  /\ Return(r, preflightResponse, "Preflight")
  /\ UNCHANGED <<upstreamCalls, upstream, remaining, fullResponse, caught>>

\* mutant: the 405 return is missing and the request falls into the try block
MethodNotAllowed_fallThrough(r) ==
  /\ pc[r] = "Idle"
  /\ \E m \in Methods \ {"OPTIONS", "POST"} :
       req' = [req EXCEPT ![r] = [NoRequest EXCEPT !.method = m]]
  /\ pc' = [pc EXCEPT ![r] = "Validating"]
  /\ UNCHANGED <<upstreamCalls, upstream, remaining, fullResponse, responses, caught>>

\* lines 82-88: any other method than POST is answered 405
MethodNotAllowed(r) ==
  /\ pc[r] = "Idle"
  /\ \E m \in Methods \ {"OPTIONS", "POST"} :
       req' = [req EXCEPT ![r] = [NoRequest EXCEPT !.method = m]]
  /\ Return(r, methodNotAllowedResponse, "Failed")
  /\ UNCHANGED <<upstreamCalls, upstream, remaining, fullResponse, caught>>

\* lines 90-94: a POST enters the try block and awaits req.json()
AcceptPost(r) ==
  /\ pc[r] = "Idle"
  /\ \E b \in Bodies :
       req' = [req EXCEPT ![r] = [method |-> "POST", body |-> b]]
  /\ pc' = [pc EXCEPT ![r] = "Validating"]
  /\ UNCHANGED <<upstreamCalls, upstream, remaining, fullResponse, responses, caught>>

\* if (!prompt): undefined and "" are falsy
falsy(prompt) == ~prompt.defined \/ prompt.text = <<>>

\* lines 94-119: req.json() settles, the prompt is checked, fetch is called
Validate(r) ==
  /\ pc[r] = "Validating"
  /\ IF ~req[r].body.parseable
     THEN /\ Throw(r, Error(<<"Unexpected token">>))
          /\ UNCHANGED upstreamCalls
     ELSE IF falsy(req[r].body.prompt)
     THEN /\ Throw(r, Error(<<"Prompt is required">>))
          /\ UNCHANGED upstreamCalls
     ELSE /\ upstreamCalls' = [upstreamCalls EXCEPT ![r] =
               Append(@, [model |-> "neural-chat", prompt |-> req[r].body.prompt.text])]
          /\ pc' = [pc EXCEPT ![r] = "AwaitingUpstream"]
          /\ UNCHANGED <<responses, caught>>
  /\ UNCHANGED <<req, upstream, remaining, fullResponse>>

\* mutant: a rejected fetch() is tried again
FetchRejects_retry(r) ==
  /\ pc[r] = "AwaitingUpstream"
  /\ upstreamCalls' = [upstreamCalls EXCEPT ![r] = Append(@, @[1])]
  /\ UNCHANGED <<pc, req, upstream, remaining, fullResponse, responses, caught>>

\* line 113: fetch() rejects (the upstream cannot be reached)
FetchRejects(r) ==
  /\ pc[r] = "AwaitingUpstream"
  /\ \E e \in Errors : Throw(r, e)
  /\ UNCHANGED <<req, upstreamCalls, upstream, remaining, fullResponse>>

\* lines 113-138: fetch() resolves; a non-2xx reply goes on to read its
\* text, a reply without a body throws, otherwise the read loop starts
FetchResolves(r) ==
  /\ pc[r] = "AwaitingUpstream"
  /\ \E response \in Offered(DOMAIN pc) :
       /\ upstream' = [upstream EXCEPT ![r] = response]
       /\ IF ~ok(response)
          THEN /\ pc' = [pc EXCEPT ![r] = "ReadingErrorText"]
               /\ UNCHANGED <<remaining, fullResponse, responses, caught>>
          ELSE IF ~response.hasBody
          THEN /\ Throw(r, Error(<<"Unable to read response body">>))
               /\ UNCHANGED <<remaining, fullResponse>>
          ELSE /\ remaining' = [remaining EXCEPT ![r] = response.body]
               /\ fullResponse' = [fullResponse EXCEPT ![r] = <<>>]
               /\ pc' = [pc EXCEPT ![r] = "Streaming"]
               /\ UNCHANGED <<responses, caught>>
  /\ UNCHANGED <<req, upstreamCalls>>

\* line 124: `Ollama API error: ${response.status}, ${errorText}`
ollamaApiError(status, errorText) ==
  <<"Ollama API error: ", ToString(status), ", ">> \o errorText

\* lines 123-124: response.text() resolves and the error is thrown
ErrorTextResolves(r) ==
  /\ pc[r] = "ReadingErrorText"
  /\ Throw(r, Error(ollamaApiError(upstream[r].status, decode(upstream[r].body))))
  /\ UNCHANGED <<req, upstreamCalls, upstream, remaining, fullResponse>>

\* line 123: response.text() rejects (the connection breaks under it)
ErrorTextRejects(r) ==
  /\ pc[r] = "ReadingErrorText"
  /\ \E e \in Errors : Throw(r, e)
  /\ UNCHANGED <<req, upstreamCalls, upstream, remaining, fullResponse>>

\* mutant: fullResponse is declared outside the handler, one accumulator
\* for all requests
ReadChunk_sharedAccumulator(r) ==
  /\ pc[r] = "Streaming"
  /\ \E k \in 1..Len(remaining[r]) :
       /\ fullResponse' = [q \in DOMAIN pc |->
            processChunk(fullResponse[r], SubSeq(remaining[r], 1, k))]
       /\ remaining' = [remaining EXCEPT ![r] =
            SubSeq(@, k+1, Len(@))]
  /\ UNCHANGED <<pc, req, upstreamCalls, upstream, responses, caught>>

\* mutant: a chunk that holds a done:true record ends the loop and answers
ReadChunk_stopOnDone(r) ==
  /\ pc[r] = "Streaming"
  /\ \E k \in 1..Len(remaining[r]) :
       LET value == SubSeq(remaining[r], 1, k)
           lines == split(decode(value))
           full  == processChunk(fullResponse[r], value)
       IN  /\ fullResponse' = [fullResponse EXCEPT ![r] = full]
           /\ remaining' = [remaining EXCEPT ![r] = SubSeq(@, k+1, Len(@))]
           /\ IF \E i \in 1..Len(lines) :
                   JSONparse(lines[i]).kind = "record" /\ JSONparse(lines[i]).done
              THEN Return(r, successResponse(full), "Completed")
              ELSE UNCHANGED <<pc, responses>>
  /\ UNCHANGED <<req, upstreamCalls, upstream, caught>>

\* lines 144-170: reader.read() resolves with the next chunk, any non-empty
\* prefix of the bytes not yet delivered, and its lines are processed
ReadChunk(r) ==
  /\ pc[r] = "Streaming"
  /\ \E k \in 1..Len(remaining[r]) :
       /\ fullResponse' = [fullResponse EXCEPT ![r] =
            processChunk(@, SubSeq(remaining[r], 1, k))]
       /\ remaining' = [remaining EXCEPT ![r] =
            SubSeq(@, k+1, Len(@))]
  /\ UNCHANGED <<pc, req, upstreamCalls, upstream, responses, caught>>

\* mutant: `if (done) continue;` the loop never ends
ReadDone_ignoresDone(r) ==
  /\ pc[r] = "Streaming"
  /\ remaining[r] = <<>>
  /\ UNCHANGED vars

\* mutant: an empty accumulated text is treated as an error
ReadDone_emptyIsError(r) ==
  /\ pc[r] = "Streaming"
  /\ remaining[r] = <<>>
  /\ IF fullResponse[r] = <<>>
     THEN Throw(r, Error(<<"No response received">>))
     ELSE /\ Return(r, successResponse(fullResponse[r]), "Completed")
          /\ UNCHANGED caught
  /\ UNCHANGED <<req, upstreamCalls, upstream, remaining, fullResponse>>

\* lines 144-145, 174-176: reader.read() reports done; the answer is sent
ReadDone(r) ==
  /\ pc[r] = "Streaming"
  /\ remaining[r] = <<>>
  /\ Return(r, successResponse(fullResponse[r]), "Completed")
  /\ UNCHANGED <<req, upstreamCalls, upstream, remaining, fullResponse, caught>>

\* mutant: a failed read answers with the text accumulated so far
ReadThrows_partialText(r) ==
  /\ pc[r] = "Streaming"
  /\ \E e \in Thrown :
       /\ caught' = [caught EXCEPT ![r] = e]
       /\ Return(r, successResponse(fullResponse[r]), "Failed")
  /\ UNCHANGED <<req, upstreamCalls, upstream, remaining, fullResponse>>

\* line 144: reader.read() rejects (the stream errors)
ReadThrows(r) ==
  /\ pc[r] = "Streaming"
  /\ \E e \in Thrown : Throw(r, e)
  /\ UNCHANGED <<req, upstreamCalls, upstream, remaining, fullResponse>>

\* ------------------------------------------------------- the prompt page
\* texts the user can type
UiPrompts == {<<>>, <<"SP">>, <<"H", "i">>}

\* what the backend can answer a POST with, and a 405
Replies ==
  {successResponse(t) : t \in {<<>>, <<"a">>, <<"b", "a">>}}
  \cup {catchResponse(e) : e \in Thrown \cup {Error(<<"Prompt is required">>)}}
  \cup {methodNotAllowedResponse}

\* JSON.stringify of a reply's body, as res.text() returns it
bodyText(reply) == <<"{", reply.key, ":">> \o reply.value \o <<"}">>

\* line 54: `HTTP error! status: ${res.status}, message: ${errorText}`
httpError(status, errorText) ==
  <<"HTTP error! status: ", ToString(status), ", message: ">> \o errorText

\* mutant: setIsLoading(false) is at the end of the try block, not in finally
catchFinally_noFinally(message) ==
  /\ uiError' = [isNull |-> FALSE, message |-> message]
  /\ uiResponse' = <<>>
  /\ isLoading' = isLoading
  /\ submitPc' = "idle"
  /\ UNCHANGED <<uiPrompt, res>>

\* mutant: the catch block does not clear the response
catchFinally_keepsResponse(message) ==
  /\ uiError' = [isNull |-> FALSE, message |-> message]
  /\ uiResponse' = uiResponse
  /\ isLoading' = FALSE
  /\ submitPc' = "idle"
  /\ UNCHANGED <<uiPrompt, res>>

\* lines 60-67: the catch block sets the error and clears the response, the
\* finally block ends the loading state
catchFinally(message) ==
  /\ uiError' = [isNull |-> FALSE, message |-> message]
  /\ uiResponse' = <<>>
  /\ isLoading' = FALSE
  /\ submitPc' = "idle"
  /\ UNCHANGED <<uiPrompt, res>>

\* lines 72-74: typing in the textarea
handlePromptChange ==
  /\ \E t \in UiPrompts \ {uiPrompt} : uiPrompt' = t
  /\ UNCHANGED <<uiResponse, isLoading, uiError, submitPc, res>>
  /\ UNCHANGED backendVars

\* lines 35-49, 94-97: the button, enabled while not loading, submits the
\* form: loading starts, the error is cleared, fetch is awaited
handleSubmit ==
  /\ ~isLoading
  /\ submitPc = "idle"
  /\ isLoading' = TRUE
  /\ uiError' = NoUiError
  /\ submitPc' = "fetching"
  /\ UNCHANGED <<uiPrompt, uiResponse, res>>
  /\ UNCHANGED backendVars

\* lines 43-58: fetch resolves with a reply; its text or its JSON is awaited
SubmitFetchResolves ==
  /\ submitPc = "fetching"
  /\ \E reply \in Replies :
       /\ res' = reply
       /\ submitPc' = IF ok(reply) THEN "readingJson" ELSE "readingText"
  /\ UNCHANGED <<uiPrompt, uiResponse, isLoading, uiError>>
  /\ UNCHANGED backendVars

\* line 43: fetch rejects (the backend cannot be reached)
SubmitFetchRejects ==
  /\ submitPc = "fetching"
  /\ \E e \in Errors : catchFinally(e.message)
  /\ UNCHANGED backendVars

\* lines 52-55: the text of a non-2xx reply arrives and the error is thrown
SubmitTextResolves ==
  /\ submitPc = "readingText"
  /\ catchFinally(httpError(res.status, bodyText(res)))
  /\ UNCHANGED backendVars

\* line 53: res.text() rejects
SubmitTextRejects ==
  /\ submitPc = "readingText"
  /\ \E e \in Errors : catchFinally(e.message)
  /\ UNCHANGED backendVars

\* lines 58-59, 65-67: the JSON of a 2xx reply arrives; its response field is
\* shown and the loading state ends
SubmitJsonResolves ==
  /\ submitPc = "readingJson"
  /\ uiResponse' = res.value
  /\ isLoading' = FALSE
  /\ submitPc' = "idle"
  /\ UNCHANGED <<uiPrompt, uiError, res>>
  /\ UNCHANGED backendVars

\* line 58: res.json() rejects
SubmitJsonRejects ==
  /\ submitPc = "readingJson"
  /\ \E e \in Errors : catchFinally(e.message)
  /\ UNCHANGED backendVars

UINext ==
  \/ handlePromptChange
  \/ handleSubmit
  \/ SubmitFetchResolves
  \/ SubmitFetchRejects
  \/ SubmitTextResolves
  \/ SubmitTextRejects
  \/ SubmitJsonResolves
  \/ SubmitJsonRejects

\* the prompt page on its own, the backend's replies taken from Replies
UISpec == Init /\ [][UINext]_vars

Next ==
  \/ \E r \in DOMAIN pc : Preflight(r) /\ UNCHANGED uiVars
  \/ \E r \in DOMAIN pc : MethodNotAllowed(r) /\ UNCHANGED uiVars
  \/ \E r \in DOMAIN pc : AcceptPost(r) /\ UNCHANGED uiVars
  \/ \E r \in DOMAIN pc : Validate(r) /\ UNCHANGED uiVars
  \/ \E r \in DOMAIN pc : FetchRejects(r) /\ UNCHANGED uiVars
  \/ \E r \in DOMAIN pc : FetchResolves(r) /\ UNCHANGED uiVars
  \/ \E r \in DOMAIN pc : ErrorTextResolves(r) /\ UNCHANGED uiVars
  \/ \E r \in DOMAIN pc : ErrorTextRejects(r) /\ UNCHANGED uiVars
  \/ \E r \in DOMAIN pc : ReadChunk(r) /\ UNCHANGED uiVars
  \/ \E r \in DOMAIN pc : ReadDone(r) /\ UNCHANGED uiVars
  \/ \E r \in DOMAIN pc : ReadThrows(r) /\ UNCHANGED uiVars

Spec == Init /\ [][Next]_vars

\* every await the handler is suspended at settles: req.json(), the upstream
\* call, the text of an error reply, and every read of the stream until it
\* closes.  Rejections stay possible; they are not forced.
Fairness ==
  /\ WF_vars(Validate(1) /\ UNCHANGED uiVars)
  /\ WF_vars(FetchResolves(1) /\ UNCHANGED uiVars)
  /\ WF_vars(ErrorTextResolves(1) /\ UNCHANGED uiVars)
  /\ WF_vars((ReadChunk(1) \/ ReadDone(1)) /\ UNCHANGED uiVars)

LiveSpec == Spec /\ Fairness

\* two requests served concurrently: their steps interleave in any order
InitConcurrent == InitFor({1, 2}) /\ UIInit
SpecConcurrent == InitConcurrent /\ [][Next]_vars


\* =================================================================== claims
Terminal == {"Completed", "Failed", "Preflight"}

\* the one Response of a request that has answered
TheResponse(r) == responses[r][1]

\* the lines of an upstream body delivered whole
WholeLines(body) == split(decode(body))

\* a body of n >= 1 newline-terminated JSON records, the last one done
RecordStream(body) ==
  LET pieces == WholeLines(body)
      n      == Len(pieces) - 1
  IN  /\ n >= 1
      /\ pieces[n+1] = <<>>
      /\ \A i \in 1..n : JSONparse(pieces[i]).kind = "record"
      /\ JSONparse(pieces[n]).done

RECURSIVE ConcatResponses(_)
\* the response fields of a sequence of record lines, concatenated in order
ConcatResponses(pieces) ==
  IF pieces = <<>> THEN <<>>
  ELSE JSONparse(Head(pieces)).response \o ConcatResponses(Tail(pieces))

\* C1: for a non-empty prompt and an upstream body of newline-terminated
\* records r1..rn with done=true on rn, the success response text is the
\* concatenation of the response fields of r1..rn in order, however the body
\* was cut into chunks.
C1_ChunkInvariantText ==
  \A r \in DOMAIN pc :
    (pc[r] = "Completed" /\ RecordStream(upstream[r].body))
      => TheResponse(r) =
           successResponse(ConcatResponses(
             SubSeq(WholeLines(upstream[r].body), 1,
                    Len(WholeLines(upstream[r].body)) - 1)))

\* a prompt that is missing or empty once trimmed
EmptyPrompt(prompt) == ~prompt.defined \/ trim(prompt.text) = <<>>

\* C2: a POST whose prompt is "", whitespace-only or missing ends in an error
\* outcome with status 500, and no upstream call is ever issued for it.
C2_EmptyPromptRejected ==
  \A r \in DOMAIN pc :
    (req[r].method = "POST" /\ req[r].body.parseable
       /\ EmptyPrompt(req[r].body.prompt))
      => /\ upstreamCalls[r] = <<>>
         /\ pc[r] \in {"Idle", "Validating", "Failed"}
         /\ pc[r] = "Failed" =>
              (TheResponse(r).status = 500 /\ TheResponse(r).key = "error")


\* a ReadChunk step of request r, and the bytes it delivered
ChunkRead(r) == pc[r] = "Streaming" /\ remaining'[r] # remaining[r]
Consumed(r) == SubSeq(remaining[r], 1, Len(remaining[r]) - Len(remaining'[r]))

IsRecordLine(line) == JSONparse(line).kind = "record"
IsMalformedLine(line) == trim(line) # <<>> /\ ~IsRecordLine(line)

\* C3: a line that fails JSON parsing is skipped: it adds nothing to the
\* accumulated text, does not fail the request and surfaces no error, and
\* the valid records around it in the chunk are all aggregated in order.
C3_MalformedLineSkipped ==
  [][\A r \in DOMAIN pc :
       ChunkRead(r) =>
         LET lines == split(decode(Consumed(r)))
         IN  /\ pc'[r] = "Streaming"
             /\ responses'[r] = <<>>
             /\ caught'[r] = NoError
             /\ fullResponse'[r] =
                  fullResponse[r] \o ConcatResponses(SelectSeq(lines, IsRecordLine))]_vars

\* a malformed line followed by a valid done record was answered with "b"
C3_Witness ==
  \E r \in DOMAIN pc :
    /\ pc[r] = "Completed"
    /\ upstream[r].body = <<"x", "NL", "{", "b", "D", "}", "NL">>
    /\ IsMalformedLine(<<"x">>)
    /\ TheResponse(r) = successResponse(<<"b">>)

\* fetch() resolved with a 2xx reply that has a body
StreamOpened(r) == upstream[r].status # 0 /\ ok(upstream[r]) /\ upstream[r].hasBody

Range(seq) == {seq[i] : i \in 1..Len(seq)}

\* C4: a success response exists only once every byte of the body was read
\* and the reader reported end-of-stream; nothing is returned while
\* streaming; a request whose stream failed answers 500 {error} with the
\* thrown value's message and none of the text accumulated so far.
C4_ResultOnlyAtEndOfStream ==
  \A r \in DOMAIN pc :
    /\ (responses[r] # <<>> /\ TheResponse(r).key = "response")
         => (pc[r] = "Completed" /\ StreamOpened(r) /\ remaining[r] = <<>>)
    /\ pc[r] = "Streaming" => responses[r] = <<>>
    /\ (pc[r] = "Failed" /\ StreamOpened(r))
         => /\ TheResponse(r).key = "error"
            /\ TheResponse(r).status = 500
            /\ Range(TheResponse(r).value) \cap Range(fullResponse[r]) = {}

\* a stream failed after text had been accumulated
C4_Witness ==
  \E r \in DOMAIN pc :
    /\ pc[r] = "Failed"
    /\ StreamOpened(r)
    /\ fullResponse[r] # <<>>
    /\ TheResponse(r).key = "error"

\* C5: a request whose method is neither POST nor OPTIONS is answered 405
\* {error: "Method Not Allowed"} at once: it never enters the try block,
\* never is validated and never causes an upstream call.
C5_MethodNotAllowed ==
  \A r \in DOMAIN pc :
    req[r].method \notin {"none", "POST", "OPTIONS"}
      => /\ pc[r] = "Failed"
         /\ Len(responses[r]) = 1
         /\ TheResponse(r).status = 405
         /\ TheResponse(r).key = "error"
         /\ TheResponse(r).value = <<"Method Not Allowed">>
         /\ upstreamCalls[r] = <<>>
         /\ caught[r] = NoError

C5_Witness ==
  \E r \in DOMAIN pc : req[r].method = "GET" /\ responses[r] # <<>>

\* sub occurs in seq as a contiguous piece
Includes(seq, sub) ==
  \E i \in 0..(Len(seq) - Len(sub)) : SubSeq(seq, i+1, i+Len(sub)) = sub

\* C6: after a non-2xx upstream reply the request ends Failed with status
\* 500 and a message that includes the upstream status code and body text,
\* and nothing is read from a stream or aggregated.
C6_UpstreamErrorSurfaced ==
  \A r \in DOMAIN pc :
    (upstream[r].status # 0 /\ ~ok(upstream[r]))
      => /\ pc[r] \in {"ReadingErrorText", "Failed"}
         /\ fullResponse[r] = <<>>
         /\ remaining[r] = <<>>
         /\ pc[r] = "Failed" =>
              /\ TheResponse(r).status = 500
              /\ TheResponse(r).key = "error"
              /\ Includes(TheResponse(r).value, <<ToString(upstream[r].status)>>)
              /\ Includes(TheResponse(r).value, decode(upstream[r].body))

\* the number of bytes of a body up to and including its last terminator
TerminatedLen(body) ==
  IF \A i \in 1..Len(body) : body[i] # "NL" THEN 0
  ELSE CHOOSE i \in 1..Len(body) :
         body[i] = "NL" /\ \A j \in (i+1)..Len(body) : body[j] # "NL"

\* C7: text after the last line terminator of the upstream body never
\* contributes a fragment: every chunk adds exactly what it would add with
\* the bytes behind the body's last terminator cut off.
C7_UnterminatedRemainderDiscarded ==
  [][\A r \in DOMAIN pc :
       ChunkRead(r) =>
         LET body == upstream[r].body
             pos  == Len(body) - Len(remaining[r])
             k    == Len(Consumed(r))
             left == TerminatedLen(body) - pos
             keep == IF left < 0 THEN 0 ELSE IF left < k THEN left ELSE k
         IN  fullResponse'[r] =
               IF keep = 0 THEN fullResponse[r]
               ELSE processChunk(fullResponse[r], SubSeq(remaining[r], 1, keep))]_vars

\* C8: when the upstream body is empty (the transport closes before any line
\* arrives) the request completes with status 200 and the empty text; it
\* fails only if a read itself rejects.
C8_EmptyStreamCompletes ==
  \A r \in DOMAIN pc :
    (StreamOpened(r) /\ upstream[r].body = <<>>)
      => /\ pc[r] \in {"Streaming", "Completed", "Failed"}
         /\ pc[r] = "Completed" => TheResponse(r) = successResponse(<<>>)
         /\ pc[r] = "Failed" => caught[r] \in Thrown

C8_Witness ==
  \E r \in DOMAIN pc :
    /\ pc[r] = "Completed"
    /\ upstream[r].body = <<>>
    /\ TheResponse(r).status = 200
    /\ TheResponse(r).value = <<>>

\* the adapter state of a handler position: reading the text of an error
\* reply is still awaiting the upstream
State(p) == IF p = "ReadingErrorText" THEN "AwaitingUpstream" ELSE p

Transitions ==
  { <<"Idle", "Validating">>, <<"Validating", "AwaitingUpstream">>,
    <<"AwaitingUpstream", "Streaming">>, <<"Streaming", "Completed">> }
  \cup {<<s, "Failed">> : s \in {"Idle", "Validating", "AwaitingUpstream", "Streaming"}}
  \cup {<<"Idle", "Preflight">>}

\* C9: a request moves Idle -> Validating -> AwaitingUpstream -> Streaming
\* -> Completed or leaves that order for Failed (a preflight is answered from
\* Idle); Completed is entered only from Streaming at end-of-stream; terminal
\* states are never left; a request has no response before it is terminal
\* and exactly one from then on.
C9_StateOrder ==
  [][\A r \in DOMAIN pc :
       LET s == State(pc[r])
           t == State(pc'[r])
       IN  /\ s # t => <<s, t>> \in Transitions
           /\ (s # t /\ t = "Completed") => remaining[r] = <<>>
           /\ s \in Terminal => (pc'[r] = pc[r] /\ responses'[r] = responses[r])
           /\ Len(responses'[r]) = IF t \in Terminal THEN 1 ELSE 0]_vars

C9_Witness ==
  \E r \in DOMAIN pc :
    /\ pc[r] = "Completed"
    /\ Len(responses[r]) = 1
    /\ fullResponse[r] # <<>>

\* C10: any exception in the POST pipeline moves the request to Failed and
\* is answered 500 {error: message}, the message being the caught Error's
\* message or "An unknown error occurred" for a value that is not an Error;
\* an unparseable body and a reply without a body always end this way.
C10_ExceptionsBecome500 ==
  \A r \in DOMAIN pc :
    /\ caught[r] # NoError => (pc[r] = "Failed" /\ req[r].method = "POST")
    /\ (pc[r] = "Failed" /\ req[r].method = "POST")
         => /\ caught[r] # NoError
            /\ Len(responses[r]) = 1
            /\ TheResponse(r).status = 500
            /\ TheResponse(r).key = "error"
            /\ TheResponse(r).value =
                 IF caught[r].isError THEN caught[r].message
                 ELSE <<"An unknown error occurred">>
    /\ (req[r].method = "POST" /\ ~req[r].body.parseable)
         => pc[r] \in {"Validating", "Failed"}
    /\ (upstream[r].status # 0 /\ ok(upstream[r]) /\ ~upstream[r].hasBody)
         => (pc[r] = "Failed"
             /\ caught[r] = Error(<<"Unable to read response body">>))

\* a thrown value that is not an Error was answered with the fallback
C10_Witness ==
  \E r \in DOMAIN pc :
    /\ pc[r] = "Failed"
    /\ caught[r] \in Thrown
    /\ ~caught[r].isError
    /\ TheResponse(r).value = <<"An unknown error occurred">>


AllowOrigin == <<"Access-Control-Allow-Origin", corsOptions.origin>>
JsonContentType == <<"Content-Type", "application/json">>

\* C11 as stated: every response, the 204 preflight included, carries
\* Access-Control-Allow-Origin: <origin> and Content-Type: application/json.
C11_AllResponsesCarryBothHeaders ==
  \A r \in DOMAIN pc :
    \A i \in 1..Len(responses[r]) :
      /\ AllowOrigin \in responses[r][i].headers
      /\ JsonContentType \in responses[r][i].headers

\* C11 amended: every response carries Access-Control-Allow-Origin set to
\* the configured origin; the 405, 200 and 500 responses also carry
\* Content-Type: application/json, the 204 preflight carries no Content-Type.
C11_HeadersByOutcome ==
  \A r \in DOMAIN pc :
    \A i \in 1..Len(responses[r]) :
      /\ AllowOrigin \in responses[r][i].headers
      /\ responses[r][i].status \in {204, 405, 200, 500}
      /\ (JsonContentType \in responses[r][i].headers)
           <=> responses[r][i].status # 204
      /\ \A h \in responses[r][i].headers :
           h[1] = "Content-Type" => h = JsonContentType

\* a preflight was answered, without a content type
C11_Witness ==
  \E r \in DOMAIN pc :
    /\ responses[r] # <<>>
    /\ TheResponse(r).status = 204
    /\ JsonContentType \notin TheResponse(r).headers

\* C12: at most one upstream call is issued per request, it is issued when
\* validation succeeds, and a request that has failed or completed issues
\* none afterwards.
C12_NoRetries ==
  [][\A r \in DOMAIN pc :
       /\ Len(upstreamCalls'[r]) <= 1
       /\ upstreamCalls'[r] # upstreamCalls[r] => pc[r] = "Validating"
       /\ (pc[r] # pc'[r] /\ pc'[r] = "Failed")
            => upstreamCalls'[r] = upstreamCalls[r]
       /\ pc[r] \in Terminal => upstreamCalls'[r] = upstreamCalls[r]]_vars

\* a request failed after its one upstream call
C12_Witness ==
  \E r \in DOMAIN pc :
    /\ pc[r] = "Failed"
    /\ Len(upstreamCalls[r]) = 1
    /\ caught[r] \in Errors

IsPrefix(a, b) == Len(a) <= Len(b) /\ SubSeq(b, 1, Len(a)) = a

HasDoneRecord(lines) ==
  \E i \in 1..Len(lines) : IsRecordLine(lines[i]) /\ JSONparse(lines[i]).done

\* C15: a done:true record does not stop reading: after the chunk holding it
\* the handler is still streaming and has answered nothing; the answer is
\* sent only when every byte was read and is the accumulator at that moment;
\* the accumulator is never cleared or altered, so the text held when the
\* done record was seen stays a prefix of the answer.
C15_DrainsToClose ==
  [][\A r \in DOMAIN pc :
       pc[r] = "Streaming" =>
         /\ IsPrefix(fullResponse[r], fullResponse'[r])
         /\ (ChunkRead(r) /\ HasDoneRecord(split(decode(Consumed(r)))))
              => (pc'[r] = "Streaming" /\ responses'[r] = <<>>)
         /\ pc'[r] = "Completed"
              => /\ remaining[r] = <<>>
                 /\ fullResponse'[r] = fullResponse[r]
                 /\ responses'[r] = <<successResponse(fullResponse[r])>>]_vars

\* a record behind the done:true record was still read and aggregated
C15_Witness ==
  \E r \in DOMAIN pc :
    /\ pc[r] = "Completed"
    /\ upstream[r].body = <<"{", "b", "D", "}", "NL", "{", "a", "}", "NL">>
    /\ TheResponse(r) = successResponse(<<"b", "a">>)

RECURSIVE Fragments(_)
\* what the lines of one chunk add: the response of every line that is a
\* record with a non-empty response, as it stands
Fragments(lines) ==
  IF lines = <<>> THEN <<>>
  ELSE LET line == Head(lines)
           add  == IF trim(line) # <<>> /\ IsRecordLine(line)
                   THEN JSONparse(line).response ELSE <<>>
       IN  add \o Fragments(Tail(lines))

\* C16: the accumulator starts empty and every chunk appends to it exactly
\* the non-empty response fields of the records of that chunk, in order and
\* verbatim (a leading space is kept); blank lines and records with an empty
\* response add nothing; it never shrinks.
C16_AccumulatorIsConcatenation ==
  [][\A r \in DOMAIN pc :
       /\ (pc[r] # "Streaming" /\ pc'[r] = "Streaming") => fullResponse'[r] = <<>>
       /\ pc[r] = "Streaming" => Len(fullResponse'[r]) >= Len(fullResponse[r])
       /\ ChunkRead(r) =>
            /\ fullResponse'[r] =
                 fullResponse[r] \o Fragments(split(decode(Consumed(r))))
            /\ Consumed(r) = <<"{", "SP", "a", "}", "NL">>
                 => fullResponse'[r] = fullResponse[r] \o <<"SP", "a">>
            /\ Consumed(r) \in {<<"NL">>, <<"SP", "NL">>, <<"{", "D", "}", "NL">>}
                 => fullResponse'[r] = fullResponse[r]]_vars

\* a fragment with a leading space was appended behind another fragment
C16_Witness ==
  \E r \in DOMAIN pc :
    /\ pc[r] = "Streaming"
    /\ remaining[r] = <<>>
    /\ upstream[r].body = <<"{", "a", "}", "NL", "{", "SP", "a", "}", "NL">>
    /\ fullResponse[r] = <<"a", "SP", "a">>


\* everything the handler holds for request r
Local(r) ==
  <<pc[r], req[r], upstreamCalls[r], upstream[r], remaining[r],
    fullResponse[r], responses[r], caught[r]>>

\* C14: with requests interleaved in any order, a step of one request
\* leaves every other request's state alone; a request's upstream call
\* carries its own prompt, its accumulator grows only by processing its own
\* chunks and holds only text of its own upstream body, and its success
\* response is its own accumulator.
C14_RequestsIsolated ==
  [][\A r \in DOMAIN pc :
       /\ Local(r)' # Local(r)
            => \A q \in DOMAIN pc \ {r} : Local(q)' = Local(q)
       /\ upstreamCalls'[r] # <<>>
            => upstreamCalls'[r][1].prompt = req'[r].body.prompt.text
       /\ fullResponse'[r] # fullResponse[r]
            => (ChunkRead(r)
                /\ fullResponse'[r] = processChunk(fullResponse[r], Consumed(r)))
       /\ Range(fullResponse'[r]) \subseteq Range(upstream'[r].body)
       /\ pc'[r] = "Completed"
            => responses'[r] = <<successResponse(fullResponse'[r])>>]_vars

\* both requests are in the middle of their streams, each holding the text
\* of its own body
C14_Witness ==
  /\ DOMAIN pc = {1, 2}
  /\ pc[1] = "Streaming" /\ pc[2] = "Streaming"
  /\ remaining[1] # <<>> /\ remaining[2] # <<>>
  /\ fullResponse[1] = <<"a">>
  /\ fullResponse[2] = <<"b">>


\* C17: when every await settles, a request that has arrived always gets to
\* a terminal state with its one response (Completed or Failed for a POST);
\* and the handler has no timer: a streaming request leaves Streaming only by
\* the reader reporting end-of-stream or by a read that throws, so it waits
\* for as long as the stream neither closes nor fails.
C17_TerminatesWhenUpstreamDoes ==
  /\ \A r \in {1} :
       (pc[r] # "Idle") ~>
         (/\ pc[r] \in Terminal
          /\ Len(responses[r]) = 1
          /\ req[r].method = "POST" => pc[r] \in {"Completed", "Failed"})
  /\ [][\A r \in DOMAIN pc :
          (pc[r] = "Streaming" /\ (pc'[r] # "Streaming" \/ responses'[r] # <<>>))
            => \/ (pc'[r] = "Completed" /\ remaining[r] = <<>>)
               \/ (pc'[r] = "Failed" /\ caught'[r] \in Thrown)]_vars

\* a request whose stream closed has completed
C17_Witness ==
  \E r \in DOMAIN pc :
    /\ pc[r] = "Completed"
    /\ upstream[r].body # <<>>
    /\ remaining[r] = <<>>
    /\ Len(responses[r]) = 1


\* C18: isLoading is true exactly while a handleSubmit call is in flight:
\* true from the start of the submit until it finishes, false again after
\* it finished on any path, so the button is enabled whenever no call runs.
C18_LoadingWhileInFlight ==
  isLoading <=> submitPc # "idle"

\* a submit failed and the button is enabled again
C18_Witness ==
  /\ submitPc = "idle"
  /\ ~isLoading
  /\ ~uiError.isNull
  /\ ~ok(res)
  /\ res.status = 500

\* {error && ...} and {response && ...}: what the page shows
ErrorShown == ~uiError.isNull /\ uiError.message # <<>>
ResponseShown == uiResponse # <<>>

\* C19: when a handleSubmit call finishes, either it succeeded (a 2xx reply
\* whose JSON was read) and error is null and response is the reply's
\* response text, or it failed and error is a non-empty message and response
\* is empty; a rejected fetch and every non-2xx reply are failures; so after
\* a call error and response are never both shown.
C19_ErrorXorResponse ==
  [][(submitPc # "idle" /\ submitPc' = "idle") =>
       /\ \/ /\ submitPc = "readingJson" /\ ok(res)
             /\ uiError'.isNull
             /\ uiResponse' = res.value
          \/ /\ ~uiError'.isNull
             /\ uiError'.message # <<>>
             /\ uiResponse' = <<>>
       /\ (submitPc \in {"fetching", "readingText"} \/ ~ok(res))
            => (~uiError'.isNull /\ uiResponse' = <<>>)
       /\ ~(ErrorShown' /\ ResponseShown')]_vars

\* a submit that got the backend's 500 finished with the error shown and
\* nothing left of an earlier answer
C19_Witness ==
  /\ submitPc = "idle"
  /\ res.status = 500
  /\ ErrorShown
  /\ ~ResponseShown
  /\ uiError.message = httpError(500, bodyText(res))

====
